---- MODULE Spec2Model ----
(***************************************************************************)
(* A model of SparseSC/utils/metrics_utils.py (placebo inference and the   *)
(* confidence-interval value types) and SparseSC/utils/penalty_utils.py    *)
(* (the maximum-penalty wrapper around the *_v_matrix strategies).         *)
(*                                                                         *)
(* Floating-point numbers are modelled in fixed point: a model number n    *)
(* stands for the real n / Unit.  Unit is a multiple of every product      *)
(* T1 * N1 the model reaches, so every mean the code takes is exact; only  *)
(* the square root is rounded (down, to 1/Unit).  NaN is a separate value. *)
(***************************************************************************)
EXTENDS Integers, Sequences, FiniteSets, TLC

\* ---------------------------------------------------------------- bounds
MaxN0 == 3
MaxN1 == 2
MaxT1 == 2
MaxCells == 5
MaxComb == 3
Precision == 100
LevelDen == 20

Vals == {-1, 0, 1}
Levels == {5, 19, LevelDen}
DefaultLevel == 19
DefaultMaxNPl == 1000000
MaxNPlChoices == {0, 2, DefaultMaxNPl}

RECURSIVE Fact(_)
Fact(n) == IF n <= 1 THEN 1 ELSE n * Fact(n - 1)

Unit == Fact(MaxT1) * Fact(MaxN1) * Precision

\* ------------------------------------------------------- numeric helpers
NaN == 0 - 2^30

Abs(x) == IF x = NaN THEN NaN ELSE IF x < 0 THEN 0 - x ELSE x

\* a >= b on floats: every comparison with NaN is False
Geq(a, b) == IF a = NaN \/ b = NaN THEN FALSE ELSE a >= b

Sub(a, b) == IF a = NaN \/ b = NaN THEN NaN ELSE a - b

Sign(x) == IF x = NaN THEN NaN ELSE IF x > 0 THEN 1 ELSE IF x < 0 THEN 0 - 1 ELSE 0

RECURSIVE SeqSum(_)
SeqSum(s) == IF Len(s) = 0 THEN 0 ELSE Head(s) + SeqSum(Tail(s))

\* np.mean of a 1-D array: NaN for an empty array or an array holding NaN
Mean(s) ==
    IF Len(s) = 0 \/ (\E i \in 1..Len(s) : s[i] = NaN) THEN NaN
    ELSE SeqSum(s) \div Len(s)

Square(x) == IF x = NaN THEN NaN ELSE (x * x) \div Unit

Max2(a, b) == IF a >= b THEN a ELSE b

RECURSIVE SqrtBetween(_, _, _)
\* the largest r in lo..hi with r * r <= y, by bisection
SqrtBetween(lo, hi, y) ==
    IF lo >= hi THEN lo
    ELSE LET mid == (lo + hi + 1) \div 2
         IN  IF mid * mid <= y THEN SqrtBetween(mid, hi, y)
             ELSE SqrtBetween(lo, mid - 1, y)

\* np.sqrt in fixed point, rounded down
Sqrt(x) ==
    IF x = NaN THEN NaN ELSE SqrtBetween(0, Max2(x, Unit), x * Unit)

\* the input matrices hold whole numbers; Fix converts them to fixed point
Fix(m) == [i \in 1..Len(m) |-> [t \in 1..Len(m[i]) |-> m[i][t] * Unit]]

\* np.mean(f(m), axis=1): one value per row
RowMeans(m) == [i \in 1..Len(m) |-> Mean(m[i])]

RowRms(m) ==
    [i \in 1..Len(m) |-> Sqrt(Mean([t \in 1..Len(m[i]) |-> Square(m[i][t])]))]

\* np.mean(m, axis=0) of a matrix with ncols columns: one value per column
ColMeans(m, ncols) ==
    [t \in 1..ncols |-> Mean([i \in 1..Len(m) |-> m[i][t]])]

\* a[comb] for a 0-based index array comb
Take(a, comb) == [k \in 1..Len(comb) |-> a[comb[k] + 1]]

\* ------------------------------------------------------------ _ncr
RECURSIVE RangeProd(_, _)
\* the product of lo..hi (1 for an empty range)
RangeProd(lo, hi) == IF lo > hi THEN 1 ELSE hi * RangeProd(lo, hi - 1)

Min2(a, b) == IF a <= b THEN a ELSE b

ncr(n, r) ==
    LET rr == Min2(r, n - r)
        numer == RangeProd(n - rr + 1, n)
        denom == RangeProd(1, rr)
    IN  numer \div denom

\* ------------------------------------------------- the two iterators
\* itertools.combinations(range(n), c): the sorted c-tuples, in lexicographic order
IsSorted(s) == \A i \in 1..(Len(s) - 1) : s[i] < s[i + 1]

LexLess(a, b) ==
    \E k \in 1..Len(a) : a[k] < b[k] /\ \A j \in 1..(k - 1) : a[j] = b[j]

SortedTuples(n, c) == {s \in [1..c -> 0..(n - 1)] : IsSorted(s)}

Combinations(n, c) ==
    LET S == SortedTuples(n, c)
    IN  [k \in 1..Cardinality(S) |->
            CHOOSE s \in S : Cardinality({u \in S : LexLess(u, s)}) = k - 1]

\* np.random.choice(n, c, replace=False): any arrangement of c distinct units
\* of range(n); none exists when c > n (numpy raises ValueError)
Choice(n, c) ==
    {s \in [1..c -> 0..(n - 1)] : \A i, j \in 1..c : i # j => s[i] # s[j]}

RECURSIVE BitAnd(_, _)
BitAnd(a, b) ==
    IF a = 0 \/ b = 0 THEN 0
    ELSE (a % 2) * (b % 2) + 2 * BitAnd(a \div 2, b \div 2)

\* max_n_pl > 0 & n_pl > max_n_pl: & binds tighter than >, and the
\* comparison chains: max_n_pl > (0 & n_pl) and (0 & n_pl) > max_n_pl
Randomize(maxnpl, npl) ==
    maxnpl > BitAnd(0, npl) /\ BitAnd(0, npl) > maxnpl

\* a variant of _calculate_p_value with incl_actual_in_set=False
calculate_p_value_excl(npl_at_least_as_large, npl) ==
    [num |-> npl_at_least_as_large, den |-> npl]

\* ------------------------------------------------- _calculate_p_value
\* a p-value is the fraction num / den
calculate_p_value(npl_at_least_as_large, npl) ==
    LET addition == 1
    IN  [num |-> npl_at_least_as_large + addition, den |-> npl + addition]

\* ------------------------------------------------ binary64 arithmetic
\* The index of lines 220-222 is computed in Python floats.  A float is
\* [m, e], standing for m * 2^e with 2^52 <= m < 2^53; a mantissa m is the
\* pair <<hi, lo>> standing for hi * 2^28 + lo, so that every intermediate
\* number stays below 2^31.
Limb == 2^28

BigGeq(a, b) == a[1] > b[1] \/ (a[1] = b[1] /\ a[2] >= b[2])

\* a - b for a >= b
BigSub(a, b) ==
    IF a[2] >= b[2] THEN <<a[1] - b[1], a[2] - b[2]>>
    ELSE <<a[1] - b[1] - 1, a[2] + Limb - b[2]>>

BigDouble(a) == <<2 * a[1] + (2 * a[2]) \div Limb, (2 * a[2]) % Limb>>

BigHalf(a) == <<a[1] \div 2, (a[1] % 2) * (Limb \div 2) + a[2] \div 2>>

BigInc(a) == IF a[2] + 1 = Limb THEN <<a[1] + 1, 0>> ELSE <<a[1], a[2] + 1>>

BigOdd(a) == a[2] % 2 = 1

Two52 == <<2^24, 0>>
Two53 == <<2^25, 0>>

\* a / 2^k rounded to the nearest integer, a half to the even neighbour.
\* s holds the number a, the count k of bits still to shift out, the last
\* bit shifted out (guard) and whether an earlier one was set (sticky).
RECURSIVE ShiftRound(_)
ShiftRound(s) ==
    IF s.k = 0
    THEN IF s.guard = 1 /\ (s.sticky \/ BigOdd(s.a)) THEN BigInc(s.a) ELSE s.a
    ELSE ShiftRound([a |-> BigHalf(s.a), k |-> s.k - 1, guard |-> s.a[2] % 2,
                     sticky |-> s.sticky \/ s.guard = 1])

RoundShift(a, k) == ShiftRound([a |-> a, k |-> k, guard |-> 0, sticky |-> FALSE])

\* scale a and b by powers of two until b <= a < 2b; t counts the doublings
\* of b less those of a
RECURSIVE Align(_)
Align(s) ==
    IF BigGeq(s.a, BigDouble(s.b))
    THEN Align([a |-> s.a, b |-> BigDouble(s.b), t |-> s.t + 1])
    ELSE IF ~BigGeq(s.a, s.b)
    THEN Align([a |-> BigDouble(s.a), b |-> s.b, t |-> s.t - 1])
    ELSE s

\* n more bits of the quotient rem / b by long division
RECURSIVE QuotientBits(_)
QuotientBits(s) ==
    IF s.n = 0 THEN s
    ELSE LET bit == IF BigGeq(s.rem, s.b) THEN 1 ELSE 0
             r == IF bit = 1 THEN BigSub(s.rem, s.b) ELSE s.rem
             d == BigDouble(s.quo)
         IN  QuotientBits([rem |-> BigDouble(r), b |-> s.b,
                           quo |-> <<d[1], d[2] + bit>>, n |-> s.n - 1])

\* the float nearest to a / b for integers a, b > 0: 54 bits of the
\* quotient, rounded to 53 with a half going to the even mantissa
BigDiv(a, b) ==
    LET al == Align([a |-> a, b |-> b, t |-> 0])
        qr == QuotientBits([rem |-> al.a, b |-> al.b, quo |-> <<0, 0>>, n |-> 54])
        m == ShiftRound([a |-> qr.quo, k |-> 1, guard |-> 0,
                         sticky |-> qr.rem # <<0, 0>>])
    IN  IF m = Two53 THEN [m |-> Two52, e |-> al.t - 51]
        ELSE [m |-> m, e |-> al.t - 52]

\* num / den on Python ints, and the float a literal num/den denotes
IntDiv(num, den) == BigDiv(<<0, num>>, <<0, den>>)

\* x / y on floats
FloatDiv(x, y) ==
    LET r == BigDiv(x.m, y.m)
    IN  [m |-> r.m, e |-> r.e + x.e - y.e]

RECURSIVE Normalize(_)
Normalize(x) ==
    IF BigGeq(x.m, Two52) THEN x ELSE Normalize([m |-> BigDouble(x.m), e |-> x.e - 1])

\* 1 - x for a float 0 < x < 1: exact for x >= 0.5, else the difference
\* lies in [0.5, 1] and is rounded to a multiple of 2^-53
OneMinus(x) ==
    LET k == 0 - 53 - x.e
        m == BigSub(Two53, RoundShift(x.m, k))
    IN  IF m = Two53 THEN [m |-> Two52, e |-> 0 - 52]
        ELSE Normalize([m |-> m, e |-> 0 - 53])

\* round(x) for a float 0 <= x < 2^28: Python 3 rounds a half to the even
\* neighbour
Round(x) ==
    IF x.e >= 0 THEN x.m[2] * 2^x.e
    ELSE RoundShift(x.m, 0 - x.e)[2]

\* ------------------------------------------------------------- np.sort
\* ascending, NaN last
SortLeq(a, b) == IF b = NaN THEN TRUE ELSE IF a = NaN THEN FALSE ELSE a <= b

RECURSIVE Insert(_, _)
Insert(x, s) ==
    IF Len(s) = 0 THEN <<x>>
    ELSE IF SortLeq(x, Head(s)) THEN <<x>> \o s
    ELSE <<Head(s)>> \o Insert(x, Tail(s))

RECURSIVE Sort(_)
Sort(s) == IF Len(s) = 0 THEN <<>> ELSE Insert(Head(s), Sort(Tail(s)))

\* a[k] for a 0-based Python index k: negative indices count from the end
InRange(a, k) == k >= 0 - Len(a) /\ k < Len(a)

At(a, k) == IF k >= 0 THEN a[k + 1] ELSE a[Len(a) + k + 1]

\* --------------------------------------------------------------- _gen_CI
\* ok = FALSE stands for the IndexError of an index outside the array
gen_CI(placebo_effects, alphaind, effect, null_is_zero) ==
    LET npl == Len(placebo_effects)
        sorted_eff == Sort(placebo_effects)
        hi_pos == (npl + 1) - alphaind
    IN  IF ~InRange(sorted_eff, alphaind) \/ ~InRange(sorted_eff, hi_pos)
        THEN [ok |-> FALSE]
        ELSE LET low_avg_effect == At(sorted_eff, alphaind)
                 high_avg_effect == At(sorted_eff, hi_pos)
             IN  [ok |-> TRUE,
                  lo |-> Sub(effect, high_avg_effect),
                  hi |-> Sub(effect, low_avg_effect),
                  warn |-> /\ null_is_zero
                           /\ low_avg_effect # NaN /\ high_avg_effect # NaN
                           /\ Sign(low_avg_effect) = Sign(high_avg_effect)
                           /\ low_avg_effect # 0
                           /\ high_avg_effect # 0]

\* ======================================================================
\* _gen_placebo_stats_from_diffs as a state machine
\* ======================================================================
VARIABLES
    inp,        \* the arguments of the call
    pc,         \* "start", "loop", "done"
    obs,        \* lines 152-161: the per-unit and the observed statistics
    n_pl, comb_iter, comb_len,
    placebos,   \* the three retained arrays (<<>> stands for None)
    vec_p, rms_joint_p, avg_joint_p,
    idx,        \* the number of combinations the loop has taken
    cur,        \* the loop body's locals for the last combination
    alpha_ind, CI,
    warned,     \* a SparseSCWarning was issued
    ret         \* "none", "PlaceboResults" or the exception raised

pvars == <<inp, pc, obs, n_pl, comb_iter, comb_len, placebos, vec_p,
           rms_joint_p, avg_joint_p, idx, cur, alpha_ind, CI, warned, ret>>

N1 == Len(inp.effect_vecs)
N0 == Len(inp.control_effect_vecs)
T1 == Len(inp.effect_vecs[1])
keep_pl == inp.ret_pl \/ inp.ret_CI

Matrices(n, t) == [1..n -> [1..t -> Vals]]

Shapes ==
    {s \in (1..MaxN0) \X (1..MaxN1) \X (0..MaxT1) :
        /\ (s[1] + s[2]) * s[3] <= MaxCells
        /\ ncr(s[1], s[2]) <= MaxComb}

NoCur == [comb |-> <<>>, placebo_effect_vec |-> <<>>,
          placebo_rms_joint_effect |-> 0, placebo_avg_joint_effect |-> 0]

NoCI == [CI_vec |-> [isNone |-> TRUE], CI_avg |-> [isNone |-> TRUE],
         CI_rms |-> [isNone |-> TRUE]]

NoObs == [control_rms_joint_effects |-> <<>>, control_avg_joint_effects |-> <<>>,
          effect_vec |-> <<>>, rms_joint_effect |-> 0, avg_joint_effect |-> 0]

NoPlacebos == [placebo_effect_vecs |-> <<>>, placebo_avg_joint_effects |-> <<>>,
               placebo_rms_joint_effects |-> <<>>]

\* the options of a call: each call varies max_n_pl, or keeps the placebos,
\* or asks for the confidence intervals at some level
Options ==
    {[max_n_pl |-> m, ret_pl |-> FALSE, ret_CI |-> FALSE, level |-> DefaultLevel] :
        m \in MaxNPlChoices}
    \cup {[max_n_pl |-> DefaultMaxNPl, ret_pl |-> TRUE, ret_CI |-> FALSE,
           level |-> DefaultLevel]}
    \cup {[max_n_pl |-> DefaultMaxNPl, ret_pl |-> FALSE, ret_CI |-> TRUE, level |-> l] :
        l \in Levels}

PlaceboInit ==
    /\ \E s \in Shapes :
       \E c \in Matrices(s[1], s[3]), e \in Matrices(s[2], s[3]) :
       \E o \in Options :
           inp = [control_effect_vecs |-> Fix(c), effect_vecs |-> Fix(e),
                  max_n_pl |-> o.max_n_pl, ret_pl |-> o.ret_pl,
                  ret_CI |-> o.ret_CI, level |-> o.level]
    /\ pc = "start"
    /\ obs = NoObs
    /\ n_pl = 0 /\ comb_iter = "none" /\ comb_len = 0
    /\ placebos = NoPlacebos
    /\ vec_p = <<>> /\ rms_joint_p = 0 /\ avg_joint_p = 0
    /\ idx = 0 /\ cur = NoCur
    /\ alpha_ind = 0 /\ CI = NoCI
    /\ warned = FALSE
    /\ ret = "none"

\* lines 144-191
Setup ==
    /\ pc = "start"
    /\ LET npl == ncr(N0, N1)
           rnd == Randomize(inp.max_n_pl, npl)
           len == IF rnd THEN inp.max_n_pl ELSE npl
       IN  /\ obs' = [control_rms_joint_effects |-> RowRms(inp.control_effect_vecs),
                      control_avg_joint_effects |-> RowMeans(inp.control_effect_vecs),
                      effect_vec |-> ColMeans(inp.effect_vecs, T1),
                      rms_joint_effect |-> Mean(RowRms(inp.effect_vecs)),
                      avg_joint_effect |-> Mean(RowMeans(inp.effect_vecs))]
           /\ n_pl' = npl
           /\ comb_iter' = IF rnd THEN "combinations" ELSE "random"
           /\ comb_len' = len
           /\ placebos' =
                 IF keep_pl
                 THEN [placebo_effect_vecs |-> [i \in 1..len |-> [t \in 1..T1 |-> NaN]],
                       placebo_avg_joint_effects |-> [i \in 1..len |-> NaN],
                       placebo_rms_joint_effects |-> [i \in 1..len |-> NaN]]
                 ELSE NoPlacebos
    /\ vec_p' = [t \in 1..T1 |-> 0]
    /\ rms_joint_p' = 0
    /\ avg_joint_p' = 0
    /\ pc' = "loop"
    /\ UNCHANGED <<inp, idx, cur, alpha_ind, CI, warned, ret>>

\* what the iterator can yield next
NextCombs ==
    IF comb_iter = "combinations"
    THEN {Combinations(N0, N1)[idx + 1]}
    ELSE Choice(N0, N1)

B2I(b) == IF b THEN 1 ELSE 0

\* lines 194-196
Draw(comb) ==
    [comb |-> comb,
     placebo_effect_vec |-> ColMeans(Take(inp.control_effect_vecs, comb), T1),
     placebo_rms_joint_effect |-> Mean(Take(obs.control_rms_joint_effects, comb)),
     placebo_avg_joint_effect |-> Mean(Take(obs.control_avg_joint_effects, comb))]

\* lines 200-202: does the placebo count as at least as extreme
VecExtreme(placebo, observed) == Geq(Abs(placebo), Abs(observed))

RmsExtreme(placebo, observed) == Geq(placebo, observed)

\* a variant of line 202 that compares the signed values
AvgExtremeSigned(placebo, observed) == Geq(placebo, observed)

AvgExtreme(placebo, observed) == Geq(Abs(placebo), Abs(observed))

\* lines 193-206: one pass of the loop body
LoopStep ==
    /\ pc = "loop"
    /\ idx < n_pl
    /\ IF NextCombs = {}
       THEN /\ ret' = "ValueError"
            /\ pc' = "done"
            /\ UNCHANGED <<vec_p, rms_joint_p, avg_joint_p, placebos, idx, cur>>
       ELSE \E comb \in NextCombs :
            LET d == Draw(comb) IN
            /\ cur' = d
            /\ vec_p' = [t \in 1..T1 |->
                   vec_p[t] + B2I(VecExtreme(d.placebo_effect_vec[t], obs.effect_vec[t]))]
            /\ rms_joint_p' = rms_joint_p
                   + B2I(RmsExtreme(d.placebo_rms_joint_effect, obs.rms_joint_effect))
            /\ avg_joint_p' = avg_joint_p
                   + B2I(AvgExtreme(d.placebo_avg_joint_effect, obs.avg_joint_effect))
            /\ IF keep_pl /\ idx >= comb_len
               THEN /\ ret' = "IndexError"
                    /\ pc' = "done"
                    /\ UNCHANGED <<placebos, idx>>
               ELSE /\ placebos' =
                        IF keep_pl
                        THEN [placebo_effect_vecs |->
                                 [placebos.placebo_effect_vecs
                                     EXCEPT ![idx + 1] = d.placebo_effect_vec],
                              placebo_avg_joint_effects |->
                                 [placebos.placebo_avg_joint_effects
                                     EXCEPT ![idx + 1] = d.placebo_avg_joint_effect],
                              placebo_rms_joint_effects |->
                                 [placebos.placebo_rms_joint_effects
                                     EXCEPT ![idx + 1] = d.placebo_rms_joint_effect]]
                        ELSE placebos
                    /\ idx' = idx + 1
                    /\ UNCHANGED <<pc, ret>>
    /\ UNCHANGED <<inp, obs, n_pl, comb_iter, comb_len, alpha_ind, CI, warned>>

\* lines 220-222: the order-statistic index, computed in floats as the
\* code computes it; level is the float that level / LevelDen denotes
AlphaInd(level, npl) ==
    LET alpha == OneMinus(IntDiv(level, LevelDen))
        p2min == IntDiv(2, npl)
    IN  Max2(1, Round(FloatDiv(alpha, p2min)))

LevelOK(level) == 0 < level /\ level < LevelDen

\* AlphaInd on the levels and placebo counts a run can meet, computed once
AlphaIndTable ==
    [level \in {l \in Levels : LevelOK(l)}, npl \in 1..MaxComb |->
        AlphaInd(level, npl)]

\* lines 242-252: the _gen_CI calls in the order the code makes them
CICalls(ai) ==
    [t \in 1..T1 |->
        gen_CI([i \in 1..Len(placebos.placebo_effect_vecs) |->
                   placebos.placebo_effect_vecs[i][t]],
               ai, obs.effect_vec[t], TRUE)]
    \o <<gen_CI(placebos.placebo_avg_joint_effects, ai, obs.avg_joint_effect, TRUE),
         gen_CI(placebos.placebo_rms_joint_effects, ai, obs.rms_joint_effect, FALSE)>>

\* lines 208-266: the loop is exhausted
Finish ==
    /\ pc = "loop"
    /\ idx = n_pl
    /\ vec_p' = [t \in 1..T1 |-> calculate_p_value(vec_p[t], comb_len)]
    /\ rms_joint_p' = calculate_p_value(rms_joint_p, comb_len)
    /\ avg_joint_p' = calculate_p_value(avg_joint_p, comb_len)
    /\ pc' = "done"
    /\ IF ~inp.ret_CI
       THEN /\ ret' = "PlaceboResults"
            /\ UNCHANGED <<alpha_ind, CI, warned>>
       ELSE IF ~LevelOK(inp.level)
       THEN /\ ret' = "AssertionError"
            /\ UNCHANGED <<alpha_ind, CI, warned>>
       ELSE LET ai == AlphaIndTable[inp.level, n_pl]
                calls == CICalls(ai)
                bad == {k \in 1..Len(calls) : ~calls[k].ok}
                made == {k \in 1..Len(calls) : \A j \in bad : k < j}
            IN  /\ alpha_ind' = ai
                /\ warned' = \E k \in made : calls[k].warn
                /\ IF bad # {}
                   THEN /\ ret' = "IndexError"
                        /\ UNCHANGED CI
                   ELSE /\ ret' = "PlaceboResults"
                        /\ CI' = [CI_vec |-> [isNone |-> FALSE,
                                              ci_low |-> [t \in 1..T1 |-> calls[t].lo],
                                              ci_high |-> [t \in 1..T1 |-> calls[t].hi],
                                              level |-> inp.level],
                                  CI_avg |-> [isNone |-> FALSE,
                                              ci_low |-> calls[T1 + 1].lo,
                                              ci_high |-> calls[T1 + 1].hi,
                                              level |-> inp.level],
                                  CI_rms |-> [isNone |-> FALSE,
                                              ci_low |-> calls[T1 + 2].lo,
                                              ci_high |-> calls[T1 + 2].hi,
                                              level |-> inp.level]]
    /\ UNCHANGED <<inp, obs, n_pl, comb_iter, comb_len, placebos, idx, cur>>

\* PlaceboResults.N_placebo
N_placebo == comb_len

\* ======================================================================
\* penalty_utils.get_max_v_pen
\* ======================================================================
MaxRows == 2
MaxCols == 1
MaxWPen == 2

WPenVals == {1, 2}

\* the v_pen a caller hands to get_max_w_pen
VPenVals == {0, 1, 2}

VARIABLES
    g,       \* the function called (fn) and its arguments
    gpc,     \* "start", "done"
    gcalls,  \* the *_v_matrix invocations made, in order, each with its outcome
    gret     \* what the caller observes

gvars == <<g, gpc, gcalls, gret>>

GRADIENT_MESSAGE == "Calculating maximum covariate penalty (i.e. the gradient at zero)"

MEMORY_MESSAGE ==
    "MemoryError encountered.  Try setting grad_splits parameter to reduce memory requirements."

\* an array argument: None, something np.asmatrix cannot coerce, a plain
\* ndarray, or an np.matrix; data holds its rows
NoneArg == [kind |-> "None", data |-> <<>>, cols |-> 0]

Uncoercible == [kind |-> "uncoercible", data |-> <<>>, cols |-> 0]

Arr(kind, cols, data) == [kind |-> kind, cols |-> cols, data |-> data]

Rows(a) == Len(a.data)
Cols(a) == a.cols

\* the matrices of one argument: every shape, the cells numbered from base
Numbered(kind, base) ==
    {Arr(kind, c, [i \in 1..r |-> [j \in 1..c |-> base + 2 * i + j]]) :
        r \in 1..MaxRows, c \in 0..MaxCols}

\* X: every shape, with numbered cells or with equal cells
XChoices ==
    {Uncoercible} \cup Numbered("matrix", 0)
    \cup {Arr("matrix", c, [i \in 1..r |-> [j \in 1..c |-> 1]]) :
             r \in 1..MaxRows, c \in 0..MaxCols}

YChoices == {Uncoercible} \cup Numbered("matrix", 10)

TreatChoices(base) ==
    {NoneArg} \cup {Arr("ndarray", 1, <<<<base>>>>)} \cup Numbered("matrix", base)

\* w_pen: None, a number, or an iterable of numbers
WPenChoices ==
    {[kind |-> "None", v |-> 0], [kind |-> "scalar", v |-> 1]}
    \cup {[kind |-> "iterable", v |-> w] :
            w \in UNION {[1..n -> WPenVals] : n \in 0..MaxWPen}}

\* what a *_v_matrix call does with return_max_v_pen=True: it returns a
\* number or runs out of memory
MemoryErrorOutcome == [raised |-> "MemoryError", value |-> 0]

Outcomes == {MemoryErrorOutcome} \cup {[raised |-> "", value |-> v] : v \in {7, 8}}

\* a call of get_max_v_pen(X, Y, w_pen, X_treat, Y_treat, **kwargs), or a
\* call of get_max_w_pen(X, Y, v_pen, **kwargs) with X_treat and Y_treat
\* among the keyword arguments; the field a function does not take is absent
NoWPen == [kind |-> "None", v |-> 0]
NoVPen == 0

PenaltyInit ==
    /\ \E x \in XChoices, y \in YChoices,
          xt \in TreatChoices(20), yt \in TreatChoices(30),
          kw \in SUBSET {"grad_splits"} :
          \/ \E w \in WPenChoices :
                g = [fn |-> "get_max_v_pen", X |-> x, Y |-> y, w_pen |-> w,
                     v_pen |-> NoVPen, X_treat |-> xt, Y_treat |-> yt,
                     kwargs |-> kw]
          \/ \E v \in VPenVals :
                g = [fn |-> "get_max_w_pen", X |-> x, Y |-> y, w_pen |-> NoWPen,
                     v_pen |-> v, X_treat |-> xt, Y_treat |-> yt,
                     kwargs |-> kw]
    /\ gpc = "start"
    /\ gcalls = <<>>
    /\ gret = [kind |-> "none"]

Raise(exc, msg) == [kind |-> "raise", exc |-> exc, msg |-> msg]

Return(value) == [kind |-> "return", value |-> value]

OK == [kind |-> "ok"]

\* a variant of lines 43-64 without the row-count check of line 60
CheckXYNoRows(a) ==
    IF a.X.kind = "uncoercible"
    THEN Raise("ValueError", "X is not coercible to a matrix")
    ELSE IF a.Y.kind = "uncoercible"
    THEN Raise("ValueError", "Y is not coercible to a matrix")
    ELSE IF (a.X_treat.kind = "None") # (a.Y_treat.kind = "None")
    THEN Raise("ValueError",
               "parameters X_treat and Y_treat must both be Matrices or None")
    ELSE IF Cols(a.X) = 0 THEN Raise("ValueError", "X.shape[1] == 0")
    ELSE IF Cols(a.Y) = 0 THEN Raise("ValueError", "Y.shape[1] == 0")
    ELSE OK

\* lines 43-64
CheckXY(a) ==
    IF a.X.kind = "uncoercible"
    THEN Raise("ValueError", "X is not coercible to a matrix")
    ELSE IF a.Y.kind = "uncoercible"
    THEN Raise("ValueError", "Y is not coercible to a matrix")
    ELSE IF (a.X_treat.kind = "None") # (a.Y_treat.kind = "None")
    THEN Raise("ValueError",
               "parameters X_treat and Y_treat must both be Matrices or None")
    ELSE IF Cols(a.X) = 0 THEN Raise("ValueError", "X.shape[1] == 0")
    ELSE IF Cols(a.Y) = 0 THEN Raise("ValueError", "Y.shape[1] == 0")
    ELSE IF Rows(a.X) # Rows(a.Y)
    THEN Raise("ValueError", "X and Y have different number of rows")
    ELSE OK

\* lines 70-83
CheckTreat(a) ==
    IF a.X_treat.kind # "matrix" THEN Raise("TypeError", "X_treat is not a matrix")
    ELSE IF a.Y_treat.kind # "matrix" THEN Raise("TypeError", "Y_treat is not a matrix")
    ELSE IF Cols(a.X_treat) = 0 THEN Raise("ValueError", "X_treat.shape[1] == 0")
    ELSE IF Cols(a.Y_treat) = 0 THEN Raise("ValueError", "Y_treat.shape[1] == 0")
    ELSE IF Rows(a.X_treat) # Rows(a.Y_treat)
    THEN Raise("ValueError", "X_treat and Y_treat have different number of rows")
    ELSE OK

\* np.mean(np.var(X, axis=0)) as the fraction num / den: a column of n values
\* has the variance (n * sum of squares - square of the sum) / n^2
w_pen_guestimate(X) ==
    LET n == Rows(X)
        col(j) == [i \in 1..n |-> X.data[i][j]]
        sq(j) == [i \in 1..n |-> X.data[i][j] * X.data[i][j]]
        var(j) == n * SeqSum(sq(j)) - SeqSum(col(j)) * SeqSum(col(j))
    IN  [num |-> SeqSum([j \in 1..Cols(X) |-> var(j)]), den |-> n * n * Cols(X)]

\* lines 65-66
WPen(a) ==
    IF a.w_pen.kind = "None"
    THEN [kind |-> "scalar", v |-> w_pen_guestimate(a.X)]
    ELSE a.w_pen

\* np.vstack((a, b)); ok = FALSE is the ValueError numpy raises for unequal widths
VStack(a, b) ==
    IF Cols(a) # Cols(b) THEN [ok |-> FALSE]
    ELSE [ok |-> TRUE, kind |-> "matrix", cols |-> Cols(a), data |-> a.data \o b.data]

\* np.arange(lo, hi)
Arange(lo, hi) == [k \in 1..(hi - lo) |-> lo + k - 1]

\* a variant of the dispatch that never looks for grad_splits
StrategyNoFold(a) ==
    IF a.X_treat.kind # "None" THEN "ct_v_matrix" ELSE "loo_v_matrix"

\* which strategy the call dispatches to (lines 68, 124, 150)
Strategy(a) ==
    IF a.X_treat.kind # "None" THEN "ct_v_matrix"
    ELSE IF "grad_splits" \in a.kwargs THEN "fold_v_matrix"
    ELSE "loo_v_matrix"

\* the keyword arguments of one invocation; ok = FALSE when stacking fails
CallArgs(a, w) ==
    IF Strategy(a) = "ct_v_matrix"
    THEN LET sx == VStack(a.X, a.X_treat)
             sy == VStack(a.Y, a.Y_treat)
         IN  IF ~sx.ok \/ ~sy.ok THEN [ok |-> FALSE]
             ELSE [ok |-> TRUE, fn |-> "ct_v_matrix",
                   X |-> sx.data, Y |-> sy.data, w_pen |-> w,
                   control_units |-> Arange(0, Rows(a.X)),
                   treated_units |-> Arange(Rows(a.X), Rows(a.X) + Rows(a.X_treat)),
                   return_max_v_pen |-> TRUE,
                   gradient_message |-> GRADIENT_MESSAGE,
                   kwargs |-> a.kwargs]
    ELSE [ok |-> TRUE, fn |-> Strategy(a),
          X |-> a.X.data, Y |-> a.Y.data, w_pen |-> w,
          control_units |-> <<>>, treated_units |-> <<>>,
          return_max_v_pen |-> TRUE,
          gradient_message |-> GRADIENT_MESSAGE,
          kwargs |-> a.kwargs]

\* a variant without the try blocks: the MemoryError always propagates
OnMemoryErrorRaw(fn) == Raise("MemoryError", "")

\* lines 144-148 and 178-182: only the loo_v_matrix calls sit in a try block
OnMemoryError(fn) ==
    IF fn = "loo_v_matrix" THEN Raise("RuntimeError", MEMORY_MESSAGE)
    ELSE Raise("MemoryError", "")

Invocation(args, outcome) ==
    [fn |-> args.fn, X |-> args.X, Y |-> args.Y, w_pen |-> args.w_pen,
     control_units |-> args.control_units, treated_units |-> args.treated_units,
     return_max_v_pen |-> args.return_max_v_pen,
     gradient_message |-> args.gradient_message, kwargs |-> args.kwargs,
     outcome |-> outcome]

\* the elements of w_pen the call works through: the number itself, or the
\* elements of the iterable
WPenList(w) == IF w.kind = "scalar" THEN <<w.v>> ELSE w.v

\* lines 85-182 with the outcomes outs[k] of the k-th invocation: the
\* invocations made and what the caller observes
Dispatch(a, outs) ==
    LET w == WPen(a)
        ws == WPenList(w)
        args == CallArgs(a, 0)
        failing == {k \in 1..Len(ws) : outs[k].raised = "MemoryError"}
        made == {k \in 1..Len(ws) : \A j \in failing : k <= j}
        log == [k \in 1..Cardinality(made) |->
                   Invocation(CallArgs(a, ws[k]), outs[k])]
    IN  IF Len(ws) = 0 THEN [calls |-> <<>>, ret |-> Return(<<>>)]
        ELSE IF ~args.ok
        THEN [calls |-> <<>>, ret |-> Raise("ValueError", "vstack")]
        ELSE IF failing # {}
        THEN [calls |-> log, ret |-> OnMemoryError(args.fn)]
        ELSE IF w.kind = "scalar"
        THEN [calls |-> log, ret |-> Return(outs[1].value)]
        ELSE [calls |-> log, ret |-> Return([k \in 1..Len(ws) |-> outs[k].value])]

\* lines 32-182
get_max_v_pen(a, outs) ==
    IF CheckXY(a).kind # "ok" THEN [calls |-> <<>>, ret |-> CheckXY(a)]
    ELSE IF a.X_treat.kind # "None" /\ CheckTreat(a).kind # "ok"
    THEN [calls |-> <<>>, ret |-> CheckTreat(a)]
    ELSE Dispatch(a, outs)

\* how many invocations the call can get to make: one per w_pen once the
\* checks of lines 43-83 pass
NCalls(a) ==
    IF CheckXY(a).kind # "ok" THEN 0
    ELSE IF a.X_treat.kind # "None" /\ CheckTreat(a).kind # "ok" THEN 0
    ELSE Len(WPenList(WPen(a)))

GetMaxVPen ==
    /\ gpc = "start"
    /\ g.fn = "get_max_v_pen"
    /\ \E outs \in [1..NCalls(g) -> Outcomes] :
          LET r == get_max_v_pen(g, outs)
          IN  /\ gcalls' = r.calls
              /\ gret' = r.ret
    /\ gpc' = "done"
    /\ UNCHANGED g

\* ---------------------------------------------------------- get_max_w_pen
\* line 30: the arguments get_max_v_pen is called with, w_pen=1
WPenOne(a) == [a EXCEPT !.w_pen = [kind |-> "scalar", v |-> 1]]

\* num / den on two numbers: the quotient as a fraction, ZeroDivisionError
\* for a zero divisor
TrueDiv(num, den) ==
    IF den = 0 THEN Raise("ZeroDivisionError", "division by zero")
    ELSE Return([num |-> num, den |-> den])

\* lines 23-30: the bound get_max_v_pen finds for w_pen=1, divided by v_pen;
\* what get_max_v_pen raises reaches the caller
get_max_w_pen(a, outs) ==
    LET r == get_max_v_pen(WPenOne(a), outs)
    IN  IF r.ret.kind = "raise" THEN r
        ELSE [calls |-> r.calls, ret |-> TrueDiv(r.ret.value, a.v_pen)]

GetMaxWPen ==
    /\ gpc = "start"
    /\ g.fn = "get_max_w_pen"
    /\ \E outs \in [1..NCalls(WPenOne(g)) -> Outcomes] :
          LET r == get_max_w_pen(g, outs)
          IN  /\ gcalls' = r.calls
              /\ gret' = r.ret
    /\ gpc' = "done"
    /\ UNCHANGED g

\* ======================================================================
\* CI_int.__contains__ and EstResultCI.__contains__
\* ======================================================================
MaxCISize == 2
MaxBound == 2

VARIABLES
    q,     \* the membership test: the object, and the value x tested
    qpc,   \* "start", "done"
    qres   \* what the expression (x in object) does

qvars == <<q, qpc, qres>>

\* a bound is a numpy value of 1..MaxCISize elements
BoundChoices == UNION {[1..n -> 0..MaxBound] : n \in 1..MaxCISize}

CIChoices ==
    {[isNone |-> FALSE, ci_low |-> b[1], ci_high |-> b[2], level |-> DefaultLevel] :
        b \in {c \in BoundChoices \X BoundChoices : Len(c[1]) = Len(c[2])}}

NoneCI == [isNone |-> TRUE]

ContainsInit ==
    /\ \E x \in 0..MaxBound :
          \/ \E ci \in CIChoices : q = [on |-> "CI_int", ci |-> ci, x |-> x]
          \/ \E ci \in CIChoices \cup {NoneCI} :
                q = [on |-> "EstResultCI", ci |-> ci, x |-> x]
    /\ qpc = "start"
    /\ qres = [kind |-> "none"]

\* ndarray.size
Size(a) == Len(a)

\* lines 41-49: the value the method hands back; the RuntimeError of line 46
\* is returned, not raised
CI_int_contains(ci, x) ==
    IF Size(ci.ci_low) > 1
    THEN [kind |-> "return", value |-> "RuntimeError"]
    ELSE [kind |-> "return",
          value |-> IF ci.ci_low[1] < x /\ x < ci.ci_high[1] THEN "True" ELSE "False"]

\* bool(v) of a value a __contains__ method returned: an exception object, like
\* any object without __bool__ or __len__, is true
Truth(v) == v # "False"

\* the expression (x in obj): a raised exception passes through, a returned
\* value is converted with bool()
InOperator(r) ==
    IF r.kind = "raise" THEN r
    ELSE [kind |-> "return", value |-> IF Truth(r.value) THEN "True" ELSE "False"]

\* lines 89-95
EstResultCI_contains(ci, x) ==
    IF ci.isNone
    THEN Raise("RuntimeError", "EstResultCI does not contain a confidence interval")
    ELSE InOperator(CI_int_contains(ci, x))

Contains ==
    /\ qpc = "start"
    /\ qres' = IF q.on = "CI_int"
               THEN InOperator(CI_int_contains(q.ci, q.x))
               ELSE InOperator(EstResultCI_contains(q.ci, q.x))
    /\ qpc' = "done"
    /\ UNCHANGED q

\* ======================================================================
\* the specifications: one per component, the other components at rest
\* ======================================================================
vars == <<pvars, gvars, qvars>>

PlaceboIdle ==
    /\ inp = [control_effect_vecs |-> <<>>, effect_vecs |-> <<>>,
              max_n_pl |-> DefaultMaxNPl, ret_pl |-> FALSE, ret_CI |-> FALSE,
              level |-> DefaultLevel]
    /\ pc = "idle"
    /\ obs = NoObs
    /\ n_pl = 0 /\ comb_iter = "none" /\ comb_len = 0
    /\ placebos = NoPlacebos
    /\ vec_p = <<>> /\ rms_joint_p = 0 /\ avg_joint_p = 0
    /\ idx = 0 /\ cur = NoCur
    /\ alpha_ind = 0 /\ CI = NoCI
    /\ warned = FALSE
    /\ ret = "none"

PenaltyIdle ==
    /\ g = [fn |-> "none", X |-> NoneArg, Y |-> NoneArg, w_pen |-> NoWPen,
            v_pen |-> NoVPen, X_treat |-> NoneArg, Y_treat |-> NoneArg,
            kwargs |-> {}]
    /\ gpc = "idle"
    /\ gcalls = <<>>
    /\ gret = [kind |-> "none"]

ContainsIdle ==
    /\ q = [on |-> "none", ci |-> NoneCI, x |-> 0]
    /\ qpc = "idle"
    /\ qres = [kind |-> "none"]

PlaceboSetup == Setup /\ UNCHANGED <<gvars, qvars>>
PlaceboLoopStep == LoopStep /\ UNCHANGED <<gvars, qvars>>
PlaceboFinish == Finish /\ UNCHANGED <<gvars, qvars>>

Init == PlaceboInit /\ PenaltyIdle /\ ContainsIdle
Next == PlaceboSetup \/ PlaceboLoopStep \/ PlaceboFinish
Spec == Init /\ [][Next]_vars

PenaltyCall == GetMaxVPen /\ UNCHANGED <<pvars, qvars>>
PenaltyWCall == GetMaxWPen /\ UNCHANGED <<pvars, qvars>>
NextPenalty == PenaltyCall \/ PenaltyWCall

InitPenalty == PlaceboIdle /\ PenaltyInit /\ ContainsIdle

SpecPenalty == InitPenalty /\ [][NextPenalty]_vars

ContainsCall == Contains /\ UNCHANGED <<pvars, gvars>>

InitContains == PlaceboIdle /\ PenaltyIdle /\ ContainsInit

SpecContains == InitContains /\ [][ContainsCall]_vars

\* ======================================================================
\* the claims
\* ======================================================================
\* C(n, k), counted: the subsets of k of the n units
Binomial(n, k) == Cardinality({S \in SUBSET (0..(n - 1)) : Cardinality(S) = k})

ValidShapes == N0 >= N1 /\ N1 >= 1 /\ T1 >= 1

Returned == pc = "done" /\ ret = "PlaceboResults"

\* C1: for valid inputs the returned number of placebo combinations is
\* min(max_n_pl, C(N0, N1)) when max_n_pl > 0, and C(N0, N1) otherwise.
C1_CombLenIsMin ==
    (Returned /\ ValidShapes) =>
        N_placebo = IF inp.max_n_pl > 0
                    THEN Min2(inp.max_n_pl, Binomial(N0, N1))
                    ELSE Binomial(N0, N1)

\* the placebo test runs in exact mode
ExactMode == inp.max_n_pl <= 0 \/ inp.max_n_pl >= Binomial(N0, N1)

\* C2: random drawing is used only when 0 < max_n_pl < C(N0, N1); in exact
\* mode the k-th combination processed is the k-th size-N1 subset of the
\* control units in lexicographic order, so that none is repeated.
C2_ExactModeLexicographic ==
    (pc \in {"loop", "done"} /\ ValidShapes /\ ExactMode /\ idx >= 1) =>
        cur.comb = Combinations(N0, N1)[idx]

\* the p-values a call returns
PValues == {vec_p[t] : t \in 1..T1} \cup {avg_joint_p, rms_joint_p}

\* the retained placebo draws at least as extreme as the observed statistic
CountVec(t) ==
    Cardinality({i \in 1..Len(placebos.placebo_effect_vecs) :
        Geq(Abs(placebos.placebo_effect_vecs[i][t]), Abs(obs.effect_vec[t]))})

CountAvg ==
    Cardinality({i \in 1..Len(placebos.placebo_avg_joint_effects) :
        Geq(Abs(placebos.placebo_avg_joint_effects[i]), Abs(obs.avg_joint_effect))})

CountRms ==
    Cardinality({i \in 1..Len(placebos.placebo_rms_joint_effects) :
        Geq(placebos.placebo_rms_joint_effects[i], obs.rms_joint_effect)})

\* C3: every returned p-value is (count + 1) / (comb_len + 1) with
\* 0 <= count <= comb_len, so it lies in [1 / (comb_len + 1), 1] and is 1
\* exactly when count = comb_len; when the draws are retained, count is the
\* number of retained draws at least as extreme as the observed statistic.
C3_PValues ==
    Returned =>
        /\ \A p \in PValues :
              /\ p.den = N_placebo + 1
              /\ p.num - 1 >= 0 /\ p.num - 1 <= N_placebo
              /\ p.num * (N_placebo + 1) >= p.den
              /\ p.num <= p.den
              /\ (p.num = p.den) <=> (p.num - 1 = N_placebo)
        /\ keep_pl =>
              /\ \A t \in 1..T1 : vec_p[t].num - 1 = CountVec(t)
              /\ avg_joint_p.num - 1 = CountAvg
              /\ rms_joint_p.num - 1 = CountRms

\* C3 witness: a call that kept its draws returns the smallest p-value for
\* one statistic and the p-value 1 for another.
C3_Witness ==
    /\ Returned /\ inp.ret_pl /\ ValidShapes
    /\ N_placebo >= 2
    /\ rms_joint_p.num = 1
    /\ avg_joint_p.num = avg_joint_p.den

\* C4: a processed draw raises the RMS counter exactly when
\* placebo_rms >= observed_rms, and the average counter and each per-period
\* counter exactly when |placebo| >= |observed|.
C4_Comparisons ==
    [][(pc = "loop" /\ idx' = idx + 1) =>
          /\ rms_joint_p' - rms_joint_p =
                B2I(Geq(cur'.placebo_rms_joint_effect, obs.rms_joint_effect))
          /\ avg_joint_p' - avg_joint_p =
                B2I(Geq(Abs(cur'.placebo_avg_joint_effect), Abs(obs.avg_joint_effect)))
          /\ \A t \in 1..T1 :
                vec_p'[t] - vec_p[t] =
                   B2I(Geq(Abs(cur'.placebo_effect_vec[t]), Abs(obs.effect_vec[t])))]_vars

\* C4 witness: the first draw has the magnitude of the observed effect and the
\* opposite sign, for the average and for a period, and both were counted.
C4_Witness ==
    /\ pc = "loop" /\ idx = 1 /\ ValidShapes
    /\ obs.avg_joint_effect > 0
    /\ cur.placebo_avg_joint_effect = 0 - obs.avg_joint_effect
    /\ avg_joint_p = 1
    /\ \E t \in 1..T1 :
          /\ obs.effect_vec[t] # 0
          /\ cur.placebo_effect_vec[t] = 0 - obs.effect_vec[t]
          /\ vec_p[t] = 1

\* C5: with a confidence interval requested, a level in (0, 1) and valid
\* shapes, both order-statistic reads stay inside the sorted array and the
\* call returns its three intervals.
C5_CICompletes ==
    (pc = "done" /\ inp.ret_CI /\ LevelOK(inp.level) /\ ValidShapes) =>
        /\ ret = "PlaceboResults"
        /\ ~CI.CI_vec.isNone /\ ~CI.CI_avg.isNone /\ ~CI.CI_rms.isNone

\* C6: the call fails, and returns no PlaceboResults, when a confidence
\* interval is requested at a level outside (0, 1), when T1 = 0 and when
\* N0 < N1.
C6_InvalidArguments ==
    (pc = "done" /\ ((inp.ret_CI /\ ~LevelOK(inp.level)) \/ T1 = 0 \/ N0 < N1)) =>
        ret \in {"ValueError", "AssertionError"}

\* the inputs C7 lists
C7_Invalid ==
    \/ g.X.kind = "matrix" /\ Len(g.X.data) >= 1 /\ \A i \in 1..Len(g.X.data) : Len(g.X.data[i]) = 0
    \/ g.Y.kind = "matrix" /\ Len(g.Y.data) >= 1 /\ \A i \in 1..Len(g.Y.data) : Len(g.Y.data[i]) = 0
    \/ g.X.kind = "matrix" /\ g.Y.kind = "matrix" /\ Len(g.X.data) # Len(g.Y.data)
    \/ g.X_treat.kind = "None" /\ g.Y_treat.kind # "None"
    \/ g.X_treat.kind # "None" /\ g.Y_treat.kind = "None"
    \/ /\ g.X_treat.kind # "None" /\ g.Y_treat.kind # "None"
       /\ \/ g.X_treat.kind # "matrix"
          \/ g.Y_treat.kind # "matrix"
          \/ \A i \in 1..Len(g.X_treat.data) : Len(g.X_treat.data[i]) = 0
          \/ \A i \in 1..Len(g.Y_treat.data) : Len(g.Y_treat.data[i]) = 0
          \/ Len(g.X_treat.data) # Len(g.Y_treat.data)

NamedCauses ==
    {"X is not coercible to a matrix", "Y is not coercible to a matrix",
     "parameters X_treat and Y_treat must both be Matrices or None",
     "X.shape[1] == 0", "Y.shape[1] == 0",
     "X and Y have different number of rows",
     "X_treat is not a matrix", "Y_treat is not a matrix",
     "X_treat.shape[1] == 0", "Y_treat.shape[1] == 0",
     "X_treat and Y_treat have different number of rows"}

\* C7: on each input the validation rejects, get_max_v_pen raises a
\* ValueError or TypeError that names the cause and invokes no strategy,
\* whatever w_pen and grad_splits are.
C7_ValidationFails ==
    (gpc = "done" /\ C7_Invalid) =>
        /\ gret.kind = "raise"
        /\ gret.exc \in {"ValueError", "TypeError"}
        /\ gret.msg \in NamedCauses
        /\ gcalls = <<>>

\* C7 witness: only Y_treat is supplied, with an iterable w_pen and
\* grad_splits, and the call has failed.
C7_Witness ==
    /\ gpc = "done"
    /\ g.X.kind = "matrix" /\ g.Y.kind = "matrix"
    /\ g.X_treat.kind = "None" /\ g.Y_treat.kind = "matrix"
    /\ g.w_pen.kind = "iterable" /\ Len(g.w_pen.v) = 2
    /\ "grad_splits" \in g.kwargs
    /\ gret.kind = "raise"

\* a call of get_max_v_pen that passes the validation
C8_Valid ==
    /\ g.fn = "get_max_v_pen"
    /\ g.X.kind = "matrix" /\ g.Y.kind = "matrix"
    /\ ~C7_Invalid

\* the w_pen values the call is to work through
C8_WPens ==
    IF g.w_pen.kind = "iterable" THEN g.w_pen.v
    ELSE IF g.w_pen.kind = "scalar" THEN <<g.w_pen.v>>
    ELSE <<w_pen_guestimate(g.X)>>

\* C8: in a call of get_max_v_pen, after the validation, every invocation
\* goes to ct_v_matrix on the stacked data with control_units = 0..n-1 and
\* treated_units = n..n+m-1
\* when the treated data are supplied, else to fold_v_matrix when grad_splits
\* is supplied, else to loo_v_matrix, always with return_max_v_pen=True; the
\* k-th invocation gets the k-th w_pen, and a call that returns has made one
\* invocation per w_pen and returns their results in that order.
C8_Dispatch ==
    (gpc = "done" /\ C8_Valid) =>
        LET n == Len(g.X.data)
            m == Len(g.X_treat.data)
            treated == g.X_treat.kind # "None"
        IN  /\ Len(gcalls) <= Len(C8_WPens)
            /\ \A k \in 1..Len(gcalls) :
                  /\ gcalls[k].return_max_v_pen
                  /\ gcalls[k].w_pen = C8_WPens[k]
                  /\ gcalls[k].fn =
                        IF treated THEN "ct_v_matrix"
                        ELSE IF "grad_splits" \in g.kwargs THEN "fold_v_matrix"
                        ELSE "loo_v_matrix"
                  /\ treated =>
                        /\ gcalls[k].X = g.X.data \o g.X_treat.data
                        /\ gcalls[k].Y = g.Y.data \o g.Y_treat.data
                        /\ gcalls[k].control_units = [i \in 1..n |-> i - 1]
                        /\ gcalls[k].treated_units = [i \in 1..m |-> n + i - 1]
                  /\ ~treated =>
                        /\ gcalls[k].X = g.X.data
                        /\ gcalls[k].Y = g.Y.data
            /\ gret.kind = "return" =>
                  /\ Len(gcalls) = Len(C8_WPens)
                  /\ IF g.w_pen.kind = "iterable"
                     THEN gret.value = [k \in 1..Len(gcalls) |-> gcalls[k].outcome.value]
                     ELSE gret.value = gcalls[1].outcome.value

\* C8 witness: a call with treated data and the iterable w_pen (2, 1) has
\* returned two different results.
C8_Witness ==
    /\ gpc = "done" /\ C8_Valid
    /\ g.X_treat.kind = "matrix" /\ Len(g.X.data) = 2 /\ Len(g.X_treat.data) = 2
    /\ g.w_pen.kind = "iterable" /\ g.w_pen.v = <<2, 1>>
    /\ gret.kind = "return" /\ gret.value = <<7, 8>>

\* an invocation ran out of memory
C9_OutOfMemory ==
    /\ gpc = "done"
    /\ gcalls # <<>>
    /\ gcalls[Len(gcalls)].outcome.raised = "MemoryError"

\* C9 as claimed: when loo_v_matrix or fold_v_matrix runs out of memory the
\* caller never observes the MemoryError but the RuntimeError that advises
\* grad_splits.
C9_AllPathsTranslated ==
    (C9_OutOfMemory /\ gcalls[1].fn \in {"loo_v_matrix", "fold_v_matrix"}) =>
        gret = Raise("RuntimeError", MEMORY_MESSAGE)

\* C9 as amended: a MemoryError of loo_v_matrix reaches the caller as the
\* RuntimeError that advises grad_splits, for a scalar and for an iterable
\* w_pen, and nothing is invoked after the failing invocation; a MemoryError
\* of fold_v_matrix reaches the caller as it is.
C9_LooTranslated ==
    C9_OutOfMemory =>
        /\ \A k \in 1..(Len(gcalls) - 1) : gcalls[k].outcome.raised = ""
        /\ gcalls[1].fn = "loo_v_matrix" => gret = Raise("RuntimeError", MEMORY_MESSAGE)
        /\ gcalls[1].fn = "fold_v_matrix" =>
              gret.kind = "raise" /\ gret.exc = "MemoryError"

\* C9 witness: the second loo_v_matrix invocation of an iterable w_pen ran
\* out of memory and the caller got the RuntimeError.
C9_Witness ==
    /\ C9_OutOfMemory
    /\ Len(gcalls) = 2
    /\ gcalls[2].fn = "loo_v_matrix"
    /\ g.w_pen.kind = "iterable"
    /\ gret.kind = "raise" /\ gret.exc = "RuntimeError"

\* C10: a membership test on an interval with vector bounds fails, one on a
\* result without an interval fails, and one on scalar bounds answers
\* low < x < high.
C10_MisuseFails ==
    qpc = "done" =>
        IF q.ci.isNone THEN qres.kind = "raise"
        ELSE IF Len(q.ci.ci_low) > 1 THEN qres.kind = "raise"
        ELSE qres = [kind |-> "return",
                     value |-> IF q.ci.ci_low[1] < q.x /\ q.x < q.ci.ci_high[1]
                               THEN "True" ELSE "False"]

====
